---- MODULE Spec2Model ----
(***************************************************************************)
(* Model of codegate's recording pipeline (src/codegate/db/connection.py): *)
(* DbRecorder.record_context and the steps it awaits, run as cooperative   *)
(* asyncio tasks.  Every await of a storage insert is a suspension point;  *)
(* what runs between two awaits is one atomic action.  Specification Spec. *)
(*                                                                         *)
(* Model of the muxing adapters (src/codegate/muxing/adapter.py): the      *)
(* chunk formatters and the streaming generator of ResponseAdapter         *)
(* (specification SpecStream), BodyAdapter (specification SpecBody); and   *)
(* of the schema bootstrap of DbRecorder (specification SpecInit).         *)
(***************************************************************************)
EXTENDS Integers, Sequences, FiniteSets, TLC

\* ------------------------------------------------------------- bounds
MaxCalls == 2      \* record_context invocations made on the one context
MaxAlerts == 2     \* length of context.alerts_raised
MaxOutputs == 2    \* length of context.output_responses
MaxChunks == 2     \* length of the upstream body of a streaming response

Calls == 1..MaxCalls

\* ------------------------------------------------------------- data
\* Text is a sequence of one-character strings, so that json.dumps is a
\* real conversion.
Payloads == { <<"a">>, <<"b", "\"">> }
Categories == {"critical", "info"}
RequestTypes == {"fim", "chat"}

SeqsUpTo(S, n) == UNION { [1..k -> S] : k \in 0..n }

\* An Output fragment of the stream: the i-th chunk carries its own id and
\* timestamp.
Fragment(i, p) == [id |-> i, prompt_id |-> 1, timestamp |-> 10 + i, output |-> p]

\* An Alert raised by the pipeline; alerts of one exchange have distinct
\* timestamps.
Alert(i, cat) == [id |-> i, prompt_id |-> 1, trigger_category |-> cat,
                  timestamp |-> 100 + i]

OutputLists == { [i \in DOMAIN ps |-> Fragment(i, ps[i])] :
                    ps \in SeqsUpTo(Payloads, MaxOutputs) }
AlertLists == { [i \in DOMAIN cs |-> Alert(i, cs[i])] :
                    cs \in SeqsUpTo(Categories, MaxAlerts) }

\* The PipelineContext handed to record_context: None, one without an
\* input request, or a full one.
Contexts ==
    { [present |-> FALSE, has_request |-> FALSE, type |-> "chat",
       output_responses |-> <<>>, alerts_raised |-> <<>>],
      [present |-> TRUE, has_request |-> FALSE, type |-> "chat",
       output_responses |-> <<>>, alerts_raised |-> <<>>] }
    \cup
    { [present |-> TRUE, has_request |-> TRUE, type |-> t,
       output_responses |-> o, alerts_raised |-> a] :
         t \in RequestTypes, o \in OutputLists, a \in AlertLists }

\* ------------------------------------------------------------- json
\* json.dumps of a str: quotes around it, '"' and '\' escaped.
RECURSIVE json_escape(_)
json_escape(s) ==
    IF s = <<>> THEN <<>>
    ELSE (IF Head(s) \in {"\"", "\\"} THEN <<"\\", Head(s)>> ELSE <<Head(s)>>)
         \o json_escape(Tail(s))

json_dumps_str(s) == <<"\"">> \o json_escape(s) \o <<"\"">>

RECURSIVE json_join(_)
json_join(l) ==
    IF l = <<>> THEN <<>>
    ELSE IF Len(l) = 1 THEN json_dumps_str(l[1])
    ELSE json_dumps_str(l[1]) \o <<",", " ">> \o json_join(Tail(l))

\* json.dumps of a list of str.
json_dumps(l) == <<"[">> \o json_join(l) \o <<"]">>

\* json.loads of the text of a list of str: ok is FALSE for a text it
\* rejects (JSONDecodeError), val is the list read.
JSONDecodeError == [ok |-> FALSE, val |-> <<>>]

RECURSIVE json_loads_str(_, _, _)
json_loads_str(t, pos, acc) ==
    IF pos > Len(t) THEN [ok |-> FALSE, val |-> <<>>, next |-> pos]
    ELSE IF t[pos] = "\"" THEN [ok |-> TRUE, val |-> acc, next |-> pos + 1]
    ELSE IF t[pos] = "\\"
         THEN IF pos + 1 > Len(t) THEN [ok |-> FALSE, val |-> <<>>, next |-> pos]
              ELSE json_loads_str(t, pos + 2, Append(acc, t[pos + 1]))
    ELSE json_loads_str(t, pos + 1, Append(acc, t[pos]))

RECURSIVE json_loads_items(_, _, _)
json_loads_items(t, pos, acc) ==
    IF pos > Len(t) \/ t[pos] # "\"" THEN JSONDecodeError
    ELSE LET r == json_loads_str(t, pos + 1, <<>>) IN
         IF ~r.ok \/ r.next > Len(t) THEN JSONDecodeError
         ELSE IF t[r.next] = "]" /\ r.next = Len(t)
              THEN [ok |-> TRUE, val |-> Append(acc, r.val)]
         ELSE IF t[r.next] = "," /\ r.next + 1 <= Len(t) /\ t[r.next + 1] = " "
              THEN json_loads_items(t, r.next + 2, Append(acc, r.val))
         ELSE JSONDecodeError

json_loads(t) ==
    IF Len(t) < 2 \/ t[1] # "[" THEN JSONDecodeError
    ELSE IF t = <<"[", "]">> THEN [ok |-> TRUE, val |-> <<>>]
    ELSE json_loads_items(t, 2, <<>>)

\* ------------------------------------------------------------- state
VARIABLES
    context,        \* the PipelineContext every call is made on
    stored_in_db,   \* context.metadata["stored_in_db"]
    pc,             \* where each record_context call is suspended
    alerts_tasks,   \* per call: the tasks of record_alerts' TaskGroup
    db_prompts,     \* rows of table prompts, in insertion order
    db_outputs,     \* rows of table outputs
    db_alerts,      \* rows of table alerts
    alert_queue,    \* the module-level asyncio.Queue
    fim_cache_calls,\* history: the consultations of the dedup cache, with its answers
    gate,           \* history: why each call's eligibility check ended as it did
    attempted,      \* history: record steps each call entered, in order
    results,        \* history: outcome of each completed step of a call
    issued,         \* history: inserts each call handed to _insert_pydantic_model
    notified,       \* history: for each queue entry, the call and alert index behind it
    prior           \* history: what a call found when it was made (the calls
                    \* that had returned, the flag)

\* The state of one reformatted response (ResponseAdapter).
VARIABLES
    response,       \* the upstream response handed to format_response_to_client
    dest_prov,      \* the destination provider type handed with it
    stream,         \* where the exchange stands: "new", "failed" (the call
                    \* raised), "suspended" (generator not started or at its
                    \* yield), "running" (the consumer awaits the next frame),
                    \* "done", "error" (the generator raised), "cancelled"
    client_response,\* what format_response_to_client returned
    pulled,         \* chunks read from response.body_iterator so far
    frames,         \* frames yielded to the consumer, in order
    stream_error,   \* the exception that ended the call or the generator
    formatted,      \* history: the chunks handed to format, in order, each
                    \* with the state of the generator, the requests made
                    \* and the frames yielded at that moment
    requests        \* history: number of times the consumer asked for a frame

recorder_vars == <<context, stored_in_db, pc, alerts_tasks, db_prompts, db_outputs,
                   db_alerts, alert_queue, fim_cache_calls, gate, attempted, results,
                   issued, notified, prior>>

stream_vars == <<response, dest_prov, stream, client_response, pulled, frames,
                 stream_error, formatted, requests>>

VARIABLES
    route,          \* the ModelRoute handed to set_destination_info
    dicts,          \* heap: the dict objects, by address
    lists,          \* heap: the list objects (nested values), by address
    data,           \* address of the body handed to set_destination_info
    data0,          \* history: the value of that body before the call
    new_data,       \* address of the dict returned (0 before the return)
    body_pc         \* "new", "returned", "edited" (the caller changed the
                    \* returned body)

body_vars == <<route, dicts, lists, data, data0, new_data, body_pc>>

VARIABLES
    store,          \* the SQLite file at _db_path: whether it exists, and
                    \* the schema statements applied to it
    schema,         \* sql/schema/schema.sql: whether it exists, its statements
    constructed,    \* a DbRecorder has been constructed
    init_pc,        \* "idle", or "executing" inside init_db's loop
    init_log        \* history: one entry per init_db invocation

init_vars == <<store, schema, constructed, init_pc, init_log>>

non_recorder_vars == <<stream_vars, body_vars, init_vars>>

non_stream_vars == <<recorder_vars, body_vars, init_vars>>

non_body_vars == <<recorder_vars, stream_vars, init_vars>>

non_init_vars == <<recorder_vars, stream_vars, body_vars>>

vars == <<recorder_vars, non_recorder_vars>>

\* The ways the await of one _insert_pydantic_model ends: the stored row
\* comes back ("row"); conn.execute fails inside the try and None comes
\* back ("none"); engine.begin() fails before the try is entered and the
\* exception leaves the coroutine ("raise").
InsertOutcomes == {"row", "none", "raise"}

\* Answers of fim_cache.could_store_fim_request.
FimAnswers == {"store", "reject", "raise"}

\* ------------------------------------------------------------- steps
\* _should_record_context with the request-type test dropped: the dedup
\* cache decides for every request type.
should_record_context_dedup_all(ctx, stored, ans) ==
    IF ~ctx.present
    THEN [result |-> FALSE, raised |-> FALSE, consulted |-> FALSE, why |-> "absent"]
    ELSE IF stored
    THEN [result |-> FALSE, raised |-> FALSE, consulted |-> FALSE, why |-> "recorded"]
    ELSE IF ~ctx.has_request
    THEN [result |-> FALSE, raised |-> FALSE, consulted |-> FALSE, why |-> "no_request"]
    ELSE [result |-> ans = "store", raised |-> ans = "raise", consulted |-> TRUE,
          why |-> IF ans = "store" THEN "fim_stored"
                  ELSE IF ans = "reject" THEN "fim_rejected" ELSE "fim_raised"]

\* _should_record_context; ans is the dedup cache's answer, read only when
\* the cache is consulted.
should_record_context(ctx, stored, ans) ==
    IF ~ctx.present
    THEN [result |-> FALSE, raised |-> FALSE, consulted |-> FALSE, why |-> "absent"]
    ELSE IF stored
    THEN [result |-> FALSE, raised |-> FALSE, consulted |-> FALSE, why |-> "recorded"]
    ELSE IF ~ctx.has_request
    THEN [result |-> FALSE, raised |-> FALSE, consulted |-> FALSE, why |-> "no_request"]
    ELSE IF ctx.type # "fim"
    THEN [result |-> TRUE, raised |-> FALSE, consulted |-> FALSE, why |-> "non_fim"]
    ELSE [result |-> ans = "store", raised |-> ans = "raise", consulted |-> TRUE,
          why |-> IF ans = "store" THEN "fim_stored"
                  ELSE IF ans = "reject" THEN "fim_rejected" ELSE "fim_raised"]

\* _insert_pydantic_model: what the coroutine hands back for an outcome.
\* <<>> is None, <<row>> the model rebuilt from the RETURNING * row.
insert_pydantic_model(model, outcome) ==
    [result |-> IF outcome = "row" THEN <<model>> ELSE <<>>,
     stored |-> outcome = "row",
     raised |-> outcome = "raise"]

\* The Prompt of the context (context.input_request).
input_request(ctx) == [id |-> 1, type |-> ctx.type]

\* record_outputs without the overwrite of output_db.output: the row keeps
\* the first fragment's payload.
output_db_first_payload(outputs) ==
    [id |-> outputs[1].id,
     prompt_id |-> outputs[1].prompt_id,
     timestamp |-> outputs[1].timestamp,
     output |-> outputs[1].output]

\* record_outputs: the single Output row built from the fragments.
output_db(outputs) ==
    [id |-> outputs[1].id,
     prompt_id |-> outputs[1].prompt_id,
     timestamp |-> outputs[1].timestamp,
     output |-> json_dumps([i \in DOMAIN outputs |-> outputs[i].output])]

\* An except clause that logs and re-raises.
handle_exception_reraise(flag) == [pc |-> "propagated", flag |-> flag]

\* An except clause that also marks the context.
handle_exception_mark(flag) == [pc |-> "returned", flag |-> TRUE]

\* record_context's except clause: the exception is logged and the call
\* returns; the metadata is left as it was.
handle_exception(flag) == [pc |-> "returned", flag |-> flag]

\* record_alerts, up to its first suspension, and what follows it in
\* record_context when it returns at once.  att, iss: the call's history.
enter_record_alerts(att, res, iss) ==
    LET alerts == context.alerts_raised IN
    IF alerts = <<>>
    THEN [pc |-> "returned", flag |-> TRUE, tasks |-> <<>>,
          attempted |-> Append(att, "alerts"),
          results |-> Append(res, "skip"), issued |-> iss]
    ELSE [pc |-> "alerts", flag |-> stored_in_db,
          tasks |-> [i \in DOMAIN alerts |-> [status |-> "pending", result |-> <<>>]],
          attempted |-> Append(att, "alerts"),
          results |-> res,
          issued |-> iss \o [i \in DOMAIN alerts |->
                               [table |-> "alerts", row |-> alerts[i]]]]

\* record_outputs, up to its first suspension.
enter_record_outputs(att, res, iss) ==
    LET outputs == context.output_responses IN
    IF outputs = <<>>
    THEN enter_record_alerts(Append(att, "outputs"), Append(res, "skip"), iss)
    ELSE [pc |-> "output", flag |-> stored_in_db, tasks |-> <<>>,
          attempted |-> Append(att, "outputs"),
          results |-> res,
          issued |-> Append(iss, [table |-> "outputs", row |-> output_db(outputs)])]

\* The tail of a call is installed from the record one of the operators
\* above yields.
Install(c, n) ==
    /\ pc' = [pc EXCEPT ![c] = n.pc]
    /\ stored_in_db' = n.flag
    /\ alerts_tasks' = [alerts_tasks EXCEPT ![c] = n.tasks]
    /\ attempted' = [attempted EXCEPT ![c] = n.attempted]
    /\ results' = [results EXCEPT ![c] = n.results]
    /\ issued' = [issued EXCEPT ![c] = n.issued]

Caught(c, res) ==
    LET h == handle_exception(stored_in_db) IN
    /\ pc' = [pc EXCEPT ![c] = h.pc]
    /\ stored_in_db' = h.flag
    /\ results' = [results EXCEPT ![c] = res]
    /\ UNCHANGED <<alerts_tasks, attempted, issued>>

\* ------------------------------------------------------------- actions
\* record_context is called: the eligibility check and, when it passes,
\* record_request up to the await of the prompt insert.
record_context(c) ==
    /\ pc[c] = "idle"
    /\ IF c = 1 THEN TRUE ELSE pc[c - 1] # "idle"
    /\ \E ans \in FimAnswers :
         LET g == should_record_context(context, stored_in_db, ans) IN
         /\ gate' = [gate EXCEPT ![c] = g.why]
         /\ fim_cache_calls' = IF g.consulted
                               THEN fim_cache_calls \cup {[call |-> c, answer |-> ans]}
                               ELSE fim_cache_calls
         /\ prior' = [prior EXCEPT ![c] =
                        [returned |-> {d \in Calls : pc[d] = "returned"},
                         stored |-> stored_in_db]]
         /\ IF g.raised
            THEN Caught(c, results[c])
            ELSE IF ~g.result
            THEN /\ pc' = [pc EXCEPT ![c] = "returned"]
                 /\ UNCHANGED <<stored_in_db, alerts_tasks, attempted, results, issued>>
            ELSE /\ pc' = [pc EXCEPT ![c] = "prompt"]
                 /\ attempted' = [attempted EXCEPT ![c] = <<"request">>]
                 /\ issued' = [issued EXCEPT ![c] =
                                 <<[table |-> "prompts", row |-> input_request(context)]>>]
                 /\ UNCHANGED <<stored_in_db, alerts_tasks, results>>
    /\ UNCHANGED <<context, db_prompts, db_outputs, db_alerts, alert_queue, notified>>
    /\ UNCHANGED non_recorder_vars

\* The prompt insert ends; record_context goes on to record_outputs.
record_request(c) ==
    /\ pc[c] = "prompt"
    /\ \E outcome \in InsertOutcomes :
         LET r == insert_pydantic_model(input_request(context), outcome) IN
         /\ db_prompts' = IF r.stored THEN Append(db_prompts, r.result[1])
                          ELSE db_prompts
         /\ IF r.raised
            THEN Caught(c, Append(results[c], outcome))
            ELSE Install(c, enter_record_outputs(attempted[c],
                                Append(results[c], outcome), issued[c]))
    /\ UNCHANGED <<context, db_outputs, db_alerts, alert_queue, fim_cache_calls,
                   gate, notified, prior>>
    /\ UNCHANGED non_recorder_vars

\* The output insert ends; record_context goes on to record_alerts.
record_outputs(c) ==
    /\ pc[c] = "output"
    /\ \E outcome \in InsertOutcomes :
         LET r == insert_pydantic_model(output_db(context.output_responses), outcome) IN
         /\ db_outputs' = IF r.stored THEN Append(db_outputs, r.result[1])
                          ELSE db_outputs
         /\ IF r.raised
            THEN Caught(c, Append(results[c], outcome))
            ELSE Install(c, enter_record_alerts(attempted[c],
                                Append(results[c], outcome), issued[c]))
    /\ UNCHANGED <<context, db_prompts, db_alerts, alert_queue, fim_cache_calls,
                   gate, notified, prior>>
    /\ UNCHANGED non_recorder_vars

\* asyncio.TaskGroup: a task that ends with an exception aborts the group,
\* which cancels every task of it that is not done.
task_group_abort(tasks) ==
    [j \in DOMAIN tasks |->
        IF tasks[j].status = "pending"
        THEN [status |-> "cancelled", result |-> <<>>]
        ELSE tasks[j]]

\* The rows of the alerts whose index is in the set is, in index order.
RECURSIVE alert_rows(_, _, _)
alert_rows(alerts, is, i) ==
    IF i > Len(alerts) THEN <<>>
    ELSE (IF i \in is THEN <<alerts[i]>> ELSE <<>>) \o alert_rows(alerts, is, i + 1)

\* One insert task of record_alerts' TaskGroup ends.  When it ends with an
\* exception the pending siblings are cancelled at their await: the
\* statement of a cancelled task may already have reached the autocommit
\* connection (landed) or not, its result is lost either way.
alert_insert(c, i) ==
    /\ pc[c] = "alerts"
    /\ i \in DOMAIN alerts_tasks[c]
    /\ alerts_tasks[c][i].status = "pending"
    /\ \E outcome \in InsertOutcomes :
         LET r == insert_pydantic_model(context.alerts_raised[i], outcome)
             done == [alerts_tasks[c] EXCEPT
                        ![i] = [status |-> IF r.raised THEN "raised" ELSE outcome,
                                result |-> r.result]]
             pending == {j \in DOMAIN done : done[j].status = "pending"}
         IN
         IF r.raised
         THEN /\ alerts_tasks' = [alerts_tasks EXCEPT ![c] = task_group_abort(done)]
              /\ \E landed \in SUBSET pending :
                    db_alerts' = db_alerts \o alert_rows(context.alerts_raised, landed, 1)
         ELSE /\ alerts_tasks' = [alerts_tasks EXCEPT ![c] = done]
              /\ db_alerts' = IF r.stored THEN Append(db_alerts, r.result[1])
                              ELSE db_alerts
    /\ UNCHANGED <<context, stored_in_db, pc, db_prompts, db_outputs, alert_queue,
                   fim_cache_calls, gate, attempted, results, issued, notified, prior>>
    /\ UNCHANGED non_recorder_vars

\* A group that is left as soon as one of its tasks is done.
task_group_joined_any(tasks) == \E i \in DOMAIN tasks : tasks[i].status # "pending"

\* The async with of the TaskGroup is left when every task of it is done.
task_group_joined(tasks) == \A i \in DOMAIN tasks : tasks[i].status # "pending"

\* The indices, in submission order, of the tasks whose result is a row
\* with trigger_category "critical".
RECURSIVE critical_results(_, _)
critical_results(tasks, i) ==
    IF i > Len(tasks) THEN <<>>
    ELSE (IF tasks[i].result # <<>> /\ tasks[i].result[1].trigger_category = "critical"
          THEN <<i>> ELSE <<>>)
         \o critical_results(tasks, i + 1)

\* A queue created with maxsize 1: put waits while the queue is full.
queue_put_returns_maxsize(queue, n) == Len(queue) + n <= 1

\* alert_queue = asyncio.Queue(): no maxsize, put never waits, whatever
\* the queue holds.
queue_put_returns(queue, n) == TRUE

\* The text record_alerts puts on the queue: `alert` is the variable of the
\* for loop that created the tasks, bound to the last alert of the list
\* once that loop has ended.
notification(alerts, i) ==
    [text |-> "New alert detected", timestamp |-> alerts[Len(alerts)].timestamp]

\* The TaskGroup is left with every task done: either it raises the
\* group's exceptions, or the results are read in submission order, the
\* critical ones are put on the queue and record_context marks the context.
record_alerts(c) ==
    /\ pc[c] = "alerts"
    /\ task_group_joined(alerts_tasks[c])
    /\ IF \E i \in DOMAIN alerts_tasks[c] : alerts_tasks[c][i].status = "raised"
       THEN /\ Caught(c, Append(results[c], "raise"))
            /\ UNCHANGED <<alert_queue, notified>>
       ELSE LET crit == critical_results(alerts_tasks[c], 1) IN
            /\ queue_put_returns(alert_queue, Len(crit))
            /\ alert_queue' = alert_queue \o
                 [k \in DOMAIN crit |-> notification(context.alerts_raised, crit[k])]
            /\ notified' = notified \o
                 [k \in DOMAIN crit |-> [call |-> c, index |-> crit[k]]]
            /\ pc' = [pc EXCEPT ![c] = "returned"]
            /\ stored_in_db' = TRUE
            /\ results' = [results EXCEPT ![c] = Append(results[c], "done")]
            /\ UNCHANGED <<alerts_tasks, attempted, issued>>
    /\ UNCHANGED <<context, db_prompts, db_outputs, db_alerts, fim_cache_calls,
                   gate, prior>>
    /\ UNCHANGED non_recorder_vars

\* ------------------------------------------------------------- chunks
\* A wire chunk, as far as the formatters read it: whether the text holds
\* "data:" (prefix), and what follows it (without the prefix: the whole
\* text) once stripped.  A body is empty text ("blank"), text that is not
\* JSON ("garbage"), JSON that is not an object ("nonobject") or a JSON
\* object, of which the Anthropic formatter reads type, delta and
\* content_block.  A field is absent, {} ("empty"), a dict with a text
\* ("text") or a non-empty dict without one ("notext").
NoObject(kind) == [kind |-> kind, type |-> "", delta |-> "absent",
                   content_block |-> "absent"]
Blank == NoObject("blank")

MsgTypes == {"message_stop", "content_block_delta"}

Bodies ==
    { NoObject(k) : k \in {"blank", "garbage", "nonobject"} }
    \cup
    { [kind |-> "object", type |-> t, delta |-> d, content_block |-> b] :
        t \in MsgTypes, d \in {"absent", "empty", "text", "notext"},
        b \in {"absent", "text"} }

Chunks ==
    { [prefix |-> TRUE, body |-> b] : b \in Bodies }
    \cup
    { [prefix |-> FALSE, body |-> b] :
        b \in { Blank, NoObject("garbage"),
                [kind |-> "object", type |-> "content_block_delta",
                 delta |-> "text", content_block |-> "absent"] } }

\* db_models.ProviderType: the five types of the dispatch table and one
\* the table lacks.
Providers == {"ollama", "openai", "anthropic", "llamacpp", "openrouter"}
ProviderTypes == Providers \cup {"unregistered"}

\* What a formatter returns: a serialized canonical chunk, or a text
\* passed through (the raw chunk for Ollama, the stripped body otherwise).
Canonical(fin, content, body) ==
    [kind |-> "canonical", finish_reason |-> fin, content |-> content,
     prefix |-> FALSE, body |-> body]
Passthrough(prefix, body) ==
    [kind |-> "text", finish_reason |-> "unset", content |-> "",
     prefix |-> prefix, body |-> body]

\* The empty string.
EMPTY == Passthrough(FALSE, Blank)

Returned(v) == [raised |-> "", value |-> v]
Raised(e) == [raised |-> e, value |-> EMPTY]

\* chunk.split("data:")[1].strip()
cleaned_chunk(chunk) ==
    IF chunk.prefix THEN Returned(Passthrough(FALSE, chunk.body))
    ELSE Raised("IndexError")

\* StreamChunkFormatter._format_ollama
format_ollama(chunk) ==
    IF ~chunk.prefix /\ chunk.body.kind = "object"
    THEN Returned(Canonical("unset", "normalized", chunk.body))
    ELSE Returned(Passthrough(chunk.prefix, chunk.body))

\* StreamChunkFormatter._format_openai
format_openai(chunk) ==
    LET cleaned == cleaned_chunk(chunk) IN
    IF cleaned.raised # "" THEN cleaned
    ELSE IF chunk.body.kind = "object"
    THEN Returned(Canonical("unset", "parsed", chunk.body))
    ELSE cleaned

\* The text of a content dict: dict.get("text", "").
msg_content(field, which) == IF field = "text" THEN which ELSE ""

\* _format_antropic without the early return for a chunk without content
\* dict.
format_antropic_no_skip(chunk) ==
    LET cleaned == cleaned_chunk(chunk)
        b == chunk.body
        finish_reason == IF b.type = "message_stop" THEN "stop" ELSE "unset"
    IN
    IF cleaned.raised # "" THEN cleaned
    ELSE IF b.kind # "object" THEN cleaned
    ELSE Returned(Canonical(finish_reason,
                            IF b.delta \in {"text", "notext"}
                            THEN msg_content(b.delta, "delta.text")
                            ELSE msg_content(b.content_block, "content_block.text"),
                            Blank))

\* StreamChunkFormatter._format_antropic
format_antropic(chunk) ==
    LET cleaned == cleaned_chunk(chunk)
        b == chunk.body
        finish_reason == IF b.type = "message_stop" THEN "stop" ELSE "unset"
        from_delta == b.delta \in {"text", "notext"}
        from_block == ~from_delta /\ b.content_block \in {"text", "notext"}
    IN
    IF cleaned.raised # "" THEN cleaned
    ELSE IF b.kind # "object" THEN cleaned
    ELSE IF ~from_delta /\ ~from_block THEN Returned(EMPTY)
    ELSE Returned(Canonical(finish_reason,
                            IF from_delta THEN msg_content(b.delta, "delta.text")
                            ELSE msg_content(b.content_block, "content_block.text"),
                            Blank))

\* StreamChunkFormatter.provider_to_func
provider_to_func(prov) ==
    CASE prov = "ollama" -> "_format_ollama"
      [] prov \in {"openai", "llamacpp", "openrouter"} -> "_format_openai"
      [] prov = "anthropic" -> "_format_antropic"
      [] OTHER -> "None"

\* format with a default formatter for a provider the table lacks.
format_default_passthrough(chunk, prov) ==
    IF provider_to_func(prov) = "_format_openai" THEN format_openai(chunk)
    ELSE IF provider_to_func(prov) = "_format_antropic" THEN format_antropic(chunk)
    ELSE format_ollama(chunk)

\* StreamChunkFormatter.format
format(chunk, prov) ==
    LET format_func == provider_to_func(prov) IN
    IF format_func = "None" THEN Raised("MuxingAdapterError")
    ELSE IF format_func = "_format_ollama" THEN format_ollama(chunk)
    ELSE IF format_func = "_format_openai" THEN format_openai(chunk)
    ELSE format_antropic(chunk)

\* ResponseAdapter._format_as_openai_chunk
format_as_openai_chunk(formatted_chunk) == <<"data:", formatted_chunk, "\n\n">>

\* ------------------------------------------------------------- stream
\* The upstream responses: a JSONResponse, or a StreamingResponse with its
\* body of chunks.
Bodies_of_stream == SeqsUpTo(Chunks, MaxChunks)

Responses ==
    { [streaming |-> FALSE, status_code |-> st, headers |-> "h1",
       background |-> "None", media_type |-> "application/json", body |-> <<>>] :
        st \in {200, 502} }
    \cup
    { [streaming |-> TRUE, status_code |-> m[1], headers |-> m[2],
       background |-> m[3], media_type |-> "text/event-stream", body |-> b] :
        m \in { <<200, "h1", "None">>, <<502, "h2", "cleanup">> },
        b \in Bodies_of_stream }

NoResponse == [streaming |-> FALSE, status_code |-> 0, headers |-> "",
               background |-> "", media_type |-> "", body |-> <<>>]

\* format_response_to_client answering with the default status code.
format_response_to_client_default_status(resp, prov) ==
    IF resp.streaming
    THEN [raised |-> "",
          value |-> [streaming |-> TRUE, status_code |-> 200,
                     headers |-> resp.headers, background |-> resp.background,
                     media_type |-> resp.media_type, body |-> <<>>]]
    ELSE [raised |-> "MuxingAdapterError", value |-> NoResponse]

\* ResponseAdapter.format_response_to_client: the response is rebuilt
\* around the generator, or the call raises.  The generator is created,
\* not started.
format_response_to_client(resp, prov) ==
    IF resp.streaming
    THEN [raised |-> "",
          value |-> [streaming |-> TRUE, status_code |-> resp.status_code,
                     headers |-> resp.headers, background |-> resp.background,
                     media_type |-> resp.media_type, body |-> <<>>]]
    ELSE [raised |-> "MuxingAdapterError", value |-> NoResponse]

\* The call of format_response_to_client.
adapt ==
    /\ stream = "new"
    /\ LET r == format_response_to_client(response, dest_prov) IN
       /\ stream' = IF r.raised # "" THEN "failed" ELSE "suspended"
       /\ stream_error' = r.raised
       /\ client_response' = r.value
    /\ UNCHANGED <<response, dest_prov, pulled, frames, formatted, requests,
                   non_stream_vars>>

\* The consumer of the returned response asks for its next frame.
consumer_next ==
    /\ stream = "suspended"
    /\ stream' = "running"
    /\ requests' = requests + 1
    /\ UNCHANGED <<response, dest_prov, client_response, pulled, frames,
                   stream_error, formatted, non_stream_vars>>

\* A generator that runs ahead of its consumer.
generator_resumed_eager(state) == state \in {"suspended", "running", "cancelled"}

\* The generator runs only while a consumer awaits a frame.
generator_resumed(state) == state = "running"

\* _format_streaming_response: one turn of the async for.  The iterator
\* is exhausted and the generator ends; or a chunk is read and formatted,
\* and then the generator raises, goes on to the next chunk (EMPTY), or
\* yields the frame and is suspended.
format_streaming_response ==
    /\ generator_resumed(stream)
    /\ stream \notin {"done", "error", "failed", "new"}
    /\ IF pulled = Len(response.body)
       THEN /\ stream' = IF stream = "cancelled" THEN "cancelled" ELSE "done"
            /\ UNCHANGED <<pulled, frames, stream_error, formatted>>
       ELSE LET chunk == response.body[pulled + 1]
                openai_chunk == format(chunk, dest_prov)
            IN
            /\ pulled' = pulled + 1
            /\ formatted' = Append(formatted,
                                   [chunk |-> pulled + 1, state |-> stream,
                                    requests |-> requests, frames |-> Len(frames)])
            /\ IF openai_chunk.raised # ""
               THEN /\ stream' = "error"
                    /\ stream_error' = openai_chunk.raised
                    /\ UNCHANGED frames
               ELSE IF openai_chunk.value = EMPTY
               THEN UNCHANGED <<stream, frames, stream_error>>
               ELSE /\ stream' = IF stream = "cancelled" THEN "cancelled"
                                 ELSE "suspended"
                    /\ frames' = Append(frames, format_as_openai_chunk(openai_chunk.value))
                    /\ UNCHANGED stream_error
    /\ UNCHANGED <<response, dest_prov, client_response, requests, non_stream_vars>>

\* The client disconnects: the consumer stops asking and closes the
\* generator, at its yield or at its read of the upstream.
consumer_cancel ==
    /\ stream \in {"suspended", "running"}
    /\ stream' = "cancelled"
    /\ UNCHANGED <<response, dest_prov, client_response, pulled, frames,
                   stream_error, formatted, requests, non_stream_vars>>

\* ------------------------------------------------------------- body
MaxMessages == 1

\* URLs and model names, as lists of the pieces they are written from.
Endpoints == { <<"http://x">>, <<"http://y", "/v1">> }
ModelNames == {"gpt", "llama"}

\* rulematcher.ModelRoute: endpoint.provider_type, endpoint.endpoint and
\* model.name.
Routes ==
    { [provider_type |-> p, endpoint |-> e, model |-> m] :
        p \in ProviderTypes, e \in Endpoints, m \in ModelNames }

\* A key of the body that is not set.
Absent == <<>>

\* The bodies: a dict whose keys model and base_url may be set already,
\* with a nested value (the list of messages) and another key.
BodyValues ==
    { [model |-> m, base_url |-> u, stream |-> st, messages |-> ms] :
        m \in {Absent, <<"old-model">>}, u \in {Absent, <<"http://old">>},
        st \in BOOLEAN, ms \in SeqsUpTo({"hi"}, MaxMessages) }

\* The value of the dict at an address, nested values included.
ValueAt(ds, ls, a) == [ds[a] EXCEPT !.messages = ls[ds[a].messages]]

NoDict == [model |-> Absent, base_url |-> Absent, stream |-> FALSE, messages |-> 0]

\* BodyAdapter._get_provider_formatted_url
get_provider_formatted_url(model_route) ==
    IF model_route.provider_type \in {"openai", "openrouter"}
    THEN model_route.endpoint \o <<"/v1">>
    ELSE model_route.endpoint

\* A copy of the top-level dict only: nested values are shared.
copy_shallow(ds, ls, a) ==
    [dicts |-> [ds EXCEPT ![2] = ds[a]], lists |-> ls, new |-> 2]

\* copy.deepcopy(data): a new dict at a free address, with new nested
\* values.
copy_deepcopy(ds, ls, a) ==
    [dicts |-> [ds EXCEPT ![2] = [ds[a] EXCEPT !.messages = 2]],
     lists |-> [ls EXCEPT ![2] = ls[ds[a].messages]],
     new |-> 2]

\* BodyAdapter.set_destination_info
set_destination_info ==
    /\ body_pc = "new"
    /\ LET copied == copy_deepcopy(dicts, lists, data) IN
       /\ dicts' = [copied.dicts EXCEPT
                      ![copied.new].model = <<route.model>>,
                      ![copied.new].base_url = get_provider_formatted_url(route)]
       /\ lists' = copied.lists
       /\ new_data' = copied.new
    /\ body_pc' = "returned"
    /\ UNCHANGED <<route, data, data0, non_body_vars>>

\* The caller goes on with the returned body and changes a nested value
\* of it, or one of its keys.
caller_edits ==
    /\ body_pc = "returned"
    /\ \/ /\ lists' = [lists EXCEPT ![dicts[new_data].messages] = Append(@, "more")]
          /\ UNCHANGED dicts
       \/ /\ dicts' = [dicts EXCEPT ![new_data].stream = ~@]
          /\ UNCHANGED lists
    /\ body_pc' = "edited"
    /\ UNCHANGED <<route, data, data0, new_data, non_body_vars>>

\* ------------------------------------------------------------- init_db
MaxStatements == 3
MaxInits == 3

Statements == 1..MaxStatements

\* schema.sql: missing, or holding up to MaxStatements statements (the
\* first k of Statements).
Schemas ==
    { [exists |-> FALSE, statements |-> <<>>] }
    \cup
    { [exists |-> TRUE, statements |-> [i \in 1..k |-> i]] : k \in 0..MaxStatements }

\* The store: no file, or a file with the statements applied to it.
Stores ==
    { [exists |-> FALSE, applied |-> <<>>] }
    \cup
    { [exists |-> TRUE, applied |-> [i \in 1..k |-> i]] : k \in 0..MaxStatements }

\* A does_db_exist that never finds the file.
does_db_exist_never(st) == FALSE

\* DbCodeGate.does_db_exist
does_db_exist(st) == st.exists

\* The entry of init_log for an invocation of init_db that has ended, or
\* that executes its statements.
LogEntry(via, before, executed, outcome) ==
    [via |-> via, before |-> before, executed |-> executed, outcome |-> outcome]

\* How the last entry of the log changes.
LogLast(log, executed, outcome) ==
    [log EXCEPT ![Len(log)].executed = executed, ![Len(log)].outcome = outcome]

\* DbRecorder.init_db up to the loop over the statements: skipped when the
\* store exists, FileNotFoundError when the schema file is missing,
\* otherwise the engine connects (SQLite creates the file) and the loop
\* starts.
init_db(via) ==
    IF does_db_exist(store)
    THEN /\ init_log' = Append(init_log, LogEntry(via, store, 0, "skipped"))
         /\ init_pc' = "idle"
         /\ constructed' = TRUE
         /\ UNCHANGED store
    ELSE IF ~schema.exists
    THEN /\ init_log' = Append(init_log, LogEntry(via, store, 0, "FileNotFoundError"))
         /\ init_pc' = "idle"
         /\ UNCHANGED <<store, constructed>>
    ELSE /\ init_log' = Append(init_log, LogEntry(via, store, 0, "executing"))
         /\ store' = [exists |-> TRUE, applied |-> store.applied]
         /\ init_pc' = "executing"
         /\ UNCHANGED constructed

\* DbRecorder.__init__: init_db runs when the store does not exist.
DbRecorder_init ==
    /\ init_pc = "idle"
    /\ Len(init_log) < MaxInits
    /\ IF ~does_db_exist(store)
       THEN init_db("constructor")
       ELSE /\ constructed' = TRUE
            /\ UNCHANGED <<store, init_pc, init_log>>
    /\ UNCHANGED <<schema, non_init_vars>>

\* asyncio.run(db.init_db()) on a constructed recorder, as in
\* init_db_sync.
init_db_call ==
    /\ init_pc = "idle"
    /\ constructed
    /\ Len(init_log) < MaxInits
    /\ init_db("init_db")
    /\ UNCHANGED <<schema, non_init_vars>>

\* One turn of the loop of init_db: the loop ends, or the next statement is
\* executed and applied, or its execution raises.
init_db_execute ==
    /\ init_pc = "executing"
    /\ LET last == init_log[Len(init_log)]
           n == last.executed
       IN
       IF n = Len(schema.statements)
       THEN /\ init_log' = LogLast(init_log, n, "done")
            /\ init_pc' = "idle"
            /\ constructed' = TRUE
            /\ UNCHANGED store
       ELSE \E ok \in BOOLEAN :
              IF ok
              THEN /\ store' = [store EXCEPT !.applied = Append(@, schema.statements[n + 1])]
                   /\ init_log' = LogLast(init_log, n + 1, "executing")
                   /\ UNCHANGED <<init_pc, constructed>>
              ELSE /\ init_log' = LogLast(init_log, n + 1, "raised")
                   /\ init_pc' = "idle"
                   /\ UNCHANGED <<store, constructed>>
    /\ UNCHANGED <<schema, non_init_vars>>

\* ------------------------------------------------------------- spec
StreamIdle ==
    /\ response = NoResponse
    /\ dest_prov = "openai"
    /\ stream = "idle"
    /\ client_response = NoResponse
    /\ pulled = 0
    /\ frames = <<>>
    /\ stream_error = ""
    /\ formatted = <<>>
    /\ requests = 0

RecorderIdle ==
    /\ context = [present |-> FALSE, has_request |-> FALSE, type |-> "chat",
                  output_responses |-> <<>>, alerts_raised |-> <<>>]
    /\ stored_in_db = FALSE
    /\ pc = [c \in Calls |-> "idle"]
    /\ alerts_tasks = [c \in Calls |-> <<>>]
    /\ db_prompts = <<>>
    /\ db_outputs = <<>>
    /\ db_alerts = <<>>
    /\ alert_queue = <<>>
    /\ fim_cache_calls = {}
    /\ gate = [c \in Calls |-> "none"]
    /\ attempted = [c \in Calls |-> <<>>]
    /\ results = [c \in Calls |-> <<>>]
    /\ issued = [c \in Calls |-> <<>>]
    /\ notified = <<>>
    /\ prior = [c \in Calls |-> [returned |-> {}, stored |-> FALSE]]

BodyIdle ==
    /\ route = [provider_type |-> "openai", endpoint |-> <<>>, model |-> ""]
    /\ dicts = <<NoDict, NoDict>>
    /\ lists = <<<<>>, <<>>>>
    /\ data = 0
    /\ data0 = [NoDict EXCEPT !.messages = <<>>]
    /\ new_data = 0
    /\ body_pc = "idle"

InitIdle ==
    /\ store = [exists |-> TRUE, applied |-> <<>>]
    /\ schema = [exists |-> TRUE, statements |-> <<>>]
    /\ constructed = TRUE
    /\ init_pc = "off"
    /\ init_log = <<>>

InitStream ==
    /\ RecorderIdle
    /\ BodyIdle
    /\ InitIdle
    /\ response \in Responses
    /\ dest_prov \in ProviderTypes
    /\ stream = "new"
    /\ client_response = NoResponse
    /\ pulled = 0
    /\ frames = <<>>
    /\ stream_error = ""
    /\ formatted = <<>>
    /\ requests = 0

NextStream ==
    \/ adapt
    \/ consumer_next
    \/ format_streaming_response
    \/ consumer_cancel

SpecStream == InitStream /\ [][NextStream]_vars

InitBody ==
    /\ RecorderIdle
    /\ StreamIdle
    /\ InitIdle
    /\ route \in Routes
    /\ data = 1
    /\ data0 \in BodyValues
    /\ dicts = <<[data0 EXCEPT !.messages = 1], NoDict>>
    /\ lists = <<data0.messages, <<>>>>
    /\ new_data = 0
    /\ body_pc = "new"

NextBody ==
    \/ set_destination_info
    \/ caller_edits

SpecBody == InitBody /\ [][NextBody]_vars

InitInit ==
    /\ RecorderIdle
    /\ StreamIdle
    /\ BodyIdle
    /\ store \in Stores
    /\ schema \in Schemas
    /\ constructed = FALSE
    /\ init_pc = "idle"
    /\ init_log = <<>>

NextInit ==
    \/ DbRecorder_init
    \/ init_db_call
    \/ init_db_execute

SpecInit == InitInit /\ [][NextInit]_vars

Init ==
    /\ StreamIdle
    /\ BodyIdle
    /\ InitIdle
    /\ context \in Contexts
    /\ stored_in_db = FALSE
    /\ pc = [c \in Calls |-> "idle"]
    /\ alerts_tasks = [c \in Calls |-> <<>>]
    /\ db_prompts = <<>>
    /\ db_outputs = <<>>
    /\ db_alerts = <<>>
    /\ alert_queue = <<>>
    /\ fim_cache_calls = {}
    /\ gate = [c \in Calls |-> "none"]
    /\ attempted = [c \in Calls |-> <<>>]
    /\ results = [c \in Calls |-> <<>>]
    /\ issued = [c \in Calls |-> <<>>]
    /\ notified = <<>>
    /\ prior = [c \in Calls |-> [returned |-> {}, stored |-> FALSE]]

Next ==
    \/ \E c \in Calls : record_context(c)
    \/ \E c \in Calls : record_request(c)
    \/ \E c \in Calls : record_outputs(c)
    \/ \E c \in Calls, i \in 1..MaxAlerts : alert_insert(c, i)
    \/ \E c \in Calls : record_alerts(c)

Spec == Init /\ [][Next]_vars

\* Termination does not depend on what the output fragments hold: the
\* contexts with every list of alerts and at most one output fragment.
FairContexts ==
    { ctx \in Contexts :
        /\ Len(ctx.output_responses) <= 1
        /\ \A k \in DOMAIN ctx.output_responses :
              ctx.output_responses[k].output = <<"a">> }

InitFair == Init /\ context \in FairContexts

\* The event loop runs every task that can go on, and every insert ends:
\* each step of a call that has started is taken eventually.  Whether a
\* call is made at all is up to the callers.
FairSpec ==
    /\ InitFair
    /\ [][Next]_vars
    /\ \A c \in Calls :
          /\ WF_vars(record_request(c))
          /\ WF_vars(record_outputs(c))
          /\ WF_vars(record_alerts(c))
          /\ \A i \in 1..MaxAlerts : WF_vars(alert_insert(c, i))

\* ------------------------------------------------------------- properties
\* The calls whose eligibility check passed.
Passed(c) == Len(attempted[c]) >= 1

\* The inserts a call issued into one table.
IssuedInto(c, table) == SelectSeq(issued[c], LAMBDA e : e.table = table)

\* The alert indices a call's notifications stand for, in queue order.
NotifiedBy(c) ==
    LET mine == SelectSeq(notified, LAMBDA n : n.call = c) IN
    [k \in DOMAIN mine |-> mine[k].index]

\* The indices, in submission order, of the alerts of a call whose insert
\* stored a row of category "critical".
RECURSIVE StoredCritical(_, _)
StoredCritical(c, i) ==
    IF i > Len(alerts_tasks[c]) THEN <<>>
    ELSE (IF alerts_tasks[c][i].status = "row"
             /\ context.alerts_raised[i].trigger_category = "critical"
          THEN <<i>> ELSE <<>>)
         \o StoredCritical(c, i + 1)

\* C1: a record_context call made on a context after an earlier call on it
\* passed the eligibility check and returned issues no prompt, output or
\* alert insert and pushes nothing on the critical-alert queue.
C1_SecondCallIsNoOp ==
    \A c \in Calls :
        (\E d \in prior[c].returned : Passed(d))
            => (issued[c] = <<>> /\ NotifiedBy(c) = <<>>)

\* C2: over all the calls made on a context, under every interleaving, the
\* prompt insert is issued at most once.
C2_PromptInsertAtMostOnce ==
    Cardinality({c \in Calls : IssuedInto(c, "prompts") # <<>>}) <= 1

\* C3: once record_alerts has ended in a call, the queue holds for that
\* call exactly one notification per alert stored with category
\* "critical", in the alerts' submission order.
C3_OneNotificationPerStoredCritical ==
    \A c \in Calls :
        (pc[c] = "returned" /\ Len(attempted[c]) = 3)
            => NotifiedBy(c) = StoredCritical(c, 1)

\* C4: every notification on the queue carries the timestamp of the
\* recorded alert that triggered it.
C4_NotificationCarriesOwnTimestamp ==
    \A k \in DOMAIN alert_queue :
        alert_queue[k].timestamp =
            alerts_tasks[notified[k].call][notified[k].index].result[1].timestamp

\* C5: the failure of one alert insert never cancels a sibling insert, and
\* when the call has returned every sibling stored as critical has been
\* notified.
C5_SiblingsSurviveFailure ==
    \A c \in Calls :
        /\ \A i \in DOMAIN alerts_tasks[c] : alerts_tasks[c][i].status # "cancelled"
        /\ pc[c] = "returned" =>
              \A i \in DOMAIN alerts_tasks[c] :
                  (alerts_tasks[c][i].status = "row"
                   /\ context.alerts_raised[i].trigger_category = "critical")
                      => \E k \in DOMAIN notified :
                            notified[k] = [call |-> c, index |-> i]

\* C6: the idempotency flag is true only if some call found the context
\* present, unmarked and with an input request, was let through by the
\* dedup cache when the request is FIM, and then went through
\* record_request, record_outputs and record_alerts without an exception
\* leaving any of them.
C6_FlagOnlyAfterThreeSteps ==
    stored_in_db =>
        \E c \in Calls :
            /\ pc[c] = "returned"
            /\ context.present /\ context.has_request /\ ~prior[c].stored
            /\ context.type = "fim" =>
                  [call |-> c, answer |-> "store"] \in fim_cache_calls
            /\ attempted[c] = <<"request", "outputs", "alerts">>
            /\ Len(results[c]) = 3
            /\ \A k \in 1..3 : results[c][k] # "raise"

\* The flag is set by one call while another call on the context was
\* turned away by the dedup cache.
C6_Witness ==
    /\ stored_in_db
    /\ \E c \in Calls :
          /\ pc[c] = "returned"
          /\ [call |-> c, answer |-> "reject"] \in fim_cache_calls

\* C7: a call that finds the context present, unmarked, with an input
\* request of a non-FIM type does not consult the dedup cache and issues
\* the prompt insert; a call on a FIM context that the dedup cache rejects
\* issues no insert at all.
C7_EligibilityGate ==
    \A c \in Calls :
        pc[c] # "idle" =>
            /\ (context.present /\ ~prior[c].stored /\ context.has_request
                /\ context.type # "fim")
                  => /\ \A q \in fim_cache_calls : q.call # c
                     /\ IssuedInto(c, "prompts") # <<>>
            /\ (context.type = "fim"
                /\ [call |-> c, answer |-> "reject"] \in fim_cache_calls)
                  => /\ issued[c] = <<>>
                     /\ attempted[c] = <<>>
                     /\ pc[c] = "returned"

\* A FIM context: one call rejected by the dedup cache has returned, while
\* another call, let through, stored the prompt.
C7_Witness ==
    /\ context.type = "fim"
    /\ db_prompts # <<>>
    /\ \E c \in Calls :
          /\ pc[c] = "returned"
          /\ [call |-> c, answer |-> "reject"] \in fim_cache_calls

\* C8: no record_context call ends by raising to its caller; a call in
\* which the dedup cache or an insert raised has returned.
C8_NeverPropagates ==
    \A c \in Calls :
        /\ pc[c] # "propagated"
        /\ (\/ [call |-> c, answer |-> "raise"] \in fim_cache_calls
            \/ \E k \in DOMAIN results[c] : results[c][k] = "raise")
              => pc[c] = "returned"

\* A call has returned after one of its concurrent alert inserts raised.
C8_Witness ==
    \E c \in Calls :
        /\ pc[c] = "returned"
        /\ \E i \in DOMAIN alerts_tasks[c] : alerts_tasks[c][i].status = "raised"

\* C9: in a call that has returned, a prompt insert that failed is followed
\* by record_outputs and record_alerts, an output insert that failed is
\* followed by record_alerts, and the context is marked recorded.
C9_FailedInsertDoesNotAbort ==
    \A c \in Calls :
        pc[c] = "returned" =>
            /\ (Len(results[c]) >= 1 /\ results[c][1] \in {"none", "raise"})
                  => /\ attempted[c] = <<"request", "outputs", "alerts">>
                     /\ stored_in_db
            /\ (Len(results[c]) >= 2 /\ results[c][2] \in {"none", "raise"})
                  => /\ attempted[c] = <<"request", "outputs", "alerts">>
                     /\ stored_in_db

\* The row record_outputs is to persist for a fragment list.
ExpectedOutputRow(fragments, row) ==
    /\ row.id = fragments[1].id
    /\ row.prompt_id = fragments[1].prompt_id
    /\ row.timestamp = fragments[1].timestamp
    /\ LET payload == json_loads(row.output) IN
       /\ payload.ok
       /\ Len(payload.val) = Len(fragments)
       /\ \A i \in DOMAIN fragments : payload.val[i] = fragments[i].output

\* C10: a call that went through record_outputs issued no output insert
\* for an empty fragment list and exactly one otherwise, of a row whose
\* id, prompt id and timestamp are the first fragment's and whose payload
\* reads back as the fragments' payloads in arrival order; the outputs
\* table holds that row once per insert that storage accepted.
C10_OneCoalescedOutputRow ==
    LET fragments == context.output_responses IN
    /\ \A c \in Calls :
          Len(attempted[c]) >= 2 =>
              LET outs == IssuedInto(c, "outputs") IN
              IF fragments = <<>> THEN outs = <<>>
              ELSE /\ Len(outs) = 1
                   /\ ExpectedOutputRow(fragments, outs[1].row)
    /\ Len(db_outputs) =
          Cardinality({c \in Calls : Len(results[c]) >= 2 /\ results[c][2] = "row"})
    /\ \A k \in DOMAIN db_outputs : ExpectedOutputRow(fragments, db_outputs[k])

\* Two fragments, one payload holding a quote, stored as one row.
C10_Witness ==
    /\ Len(context.output_responses) = 2
    /\ \E i \in 1..2 : context.output_responses[i].output = <<"b", "\"">>
    /\ Len(db_outputs) = 1

\* The tables of the inserts a call has issued, in order.
IssuedTables(c) == [k \in DOMAIN issued[c] |-> issued[c][k].table]

\* The insert of a step has ended without an exception.
Completed(c, step) == Len(results[c]) >= step /\ results[c][step] \in {"row", "none"}

\* C18: a notification pushed by a call finds none of the call's alert
\* inserts pending, cancelled or raised: all of them had completed; and a
\* call issues its inserts in the order prompt, output, alerts, the output
\* insert only when the prompt insert has completed, and the alert inserts
\* only when the prompt insert and the output insert (if there is one)
\* have completed.
C18_InsertsBeforeNotifications ==
    /\ \A k \in DOMAIN notified :
          \A i \in DOMAIN alerts_tasks[notified[k].call] :
              alerts_tasks[notified[k].call][i].status \in {"row", "none"}
    /\ \A c \in Calls :
          LET tables == IssuedTables(c) IN
          /\ \A j, k \in DOMAIN tables :
                j < k => <<tables[j], tables[k]>> \in
                            { <<"prompts", "outputs">>, <<"prompts", "alerts">>,
                              <<"outputs", "alerts">>, <<"alerts", "alerts">> }
          /\ (\E k \in DOMAIN tables : tables[k] = "outputs") => Completed(c, 1)
          /\ (\E k \in DOMAIN tables : tables[k] = "alerts")
                => /\ Completed(c, 1)
                   /\ Len(results[c]) >= 2
                   /\ results[c][2] \in {"row", "none", "skip"}
                   /\ results[c][2] = "skip" <=> context.output_responses = <<>>

\* A call with outputs and two alerts has pushed its two notifications.
C18_Witness ==
    \E c \in Calls :
        /\ IssuedTables(c) = <<"prompts", "outputs", "alerts", "alerts">>
        /\ Len(NotifiedBy(c)) = 2
        /\ pc[c] = "returned"

\* No step of the call ended with an exception.
NoRaise(c) == \A k \in DOMAIN results[c] : results[c][k] # "raise"

\* C20: when every step that can be taken is taken eventually, every
\* record_context call that was made returns, whatever the number of
\* notifications on the queue, and a call that passed the eligibility
\* check and saw no exception has returned with the context marked.
C20_EveryCallReturns ==
    \A c \in Calls :
        (pc[c] # "idle")
            ~> (pc[c] = "returned" /\ ((Passed(c) /\ NoRaise(c)) => stored_in_db))

\* Two calls have returned with the context marked, leaving four
\* notifications on the queue that nobody consumed.
C20_Witness ==
    /\ \A c \in Calls : pc[c] = "returned" /\ Passed(c) /\ NoRaise(c)
    /\ stored_in_db
    /\ Len(alert_queue) = 4

\* ------------------------------------------------------------- stream claims
\* The frames of the chunks that format turns into something other than
\* EMPTY, in order.
RECURSIVE ExpectedFrames(_, _)
ExpectedFrames(body, prov) ==
    IF body = <<>> THEN <<>>
    ELSE LET r == format(Head(body), prov) IN
         (IF r.raised = "" /\ r.value # EMPTY
          THEN <<format_as_openai_chunk(r.value)>> ELSE <<>>)
         \o ExpectedFrames(Tail(body), prov)

\* The generator has ended, by exhaustion or by an exception.
StreamEnded == stream \in {"done", "error"}

\* C11: for a supported provider, a stream consumed to its end has pulled
\* every upstream chunk and has emitted exactly one frame, in order, for
\* each chunk whose formatter result is not EMPTY.
C11_FramesAreNonEmptyResults ==
    (dest_prov \in Providers /\ StreamEnded)
        => /\ pulled = Len(response.body)
           /\ frames = ExpectedFrames(response.body, dest_prov)

\* C12: for a supported provider no chunk makes format raise, and the
\* stream is never broken by a chunk.
C12_FormatNeverRaises ==
    dest_prov \in Providers
        => /\ \A k \in 1..pulled : format(response.body[k], dest_prov).raised = ""
           /\ stream # "error"

\* C13 as stated: with a provider the dispatch table lacks, the adapter
\* emits no frame and never ends without an error.
C13_UnregisteredAlwaysFails ==
    dest_prov \notin Providers => (frames = <<>> /\ stream # "done")

\* C13: format raises MuxingAdapterError for every chunk when the provider
\* is not in the dispatch table; the adapter, whose generator starts with
\* the first request of the consumer, then emits no frame, raises that
\* error to the consumer at the first upstream chunk and pulls no other
\* chunk, and ends without an error only when the upstream had no chunk.
C13_HardErrorAtFirstChunk ==
    dest_prov \notin Providers
        => /\ \A chunk \in Chunks :
                format(chunk, dest_prov) = Raised("MuxingAdapterError")
           /\ frames = <<>>
           /\ pulled <= 1
           /\ pulled = 1 => (stream = "error" /\ stream_error = "MuxingAdapterError")
           /\ stream = "done" => response.body = <<>>
           /\ (stream = "error" /\ response.streaming) => requests = 1

\* An unregistered provider and two upstream chunks: the first was pulled
\* and the error reached the consumer.
C13_Witness ==
    /\ dest_prov \notin Providers
    /\ Len(response.body) = 2
    /\ pulled = 1
    /\ stream = "error"

\* C14: once format_response_to_client has been called, on a response
\* that is not streaming it has raised MuxingAdapterError whatever the
\* provider, has returned no response and no chunk is ever pulled,
\* formatted or framed; on a streaming response it has returned a
\* streaming response with the status code, headers, background task and
\* media type of the original.
C14_AdaptOutcome ==
    stream # "new" =>
        IF response.streaming
        THEN /\ stream # "failed"
             /\ client_response.streaming
             /\ client_response.status_code = response.status_code
             /\ client_response.headers = response.headers
             /\ client_response.background = response.background
             /\ client_response.media_type = response.media_type
        ELSE /\ stream = "failed"
             /\ stream_error = "MuxingAdapterError"
             /\ client_response = NoResponse
             /\ pulled = 0 /\ formatted = <<>> /\ frames = <<>> /\ requests = 0

\* A JSON response with status 502 was refused.
C14_Witness ==
    /\ ~response.streaming
    /\ response.status_code = 502
    /\ stream = "failed"

\* The Anthropic events read so far: the chunks pulled that hold "data:"
\* and a JSON object.
AnthropicEvents ==
    IF dest_prov = "anthropic"
    THEN { response.body[k] : k \in
             { j \in 1..pulled : /\ response.body[j].prefix
                                 /\ response.body[j].body.kind = "object" } }
    ELSE {}

\* The event holds a text, in its delta or in its content_block.
HasText(b) == b.delta = "text" \/ b.content_block = "text"

\* The event has a non-empty delta or content_block.
HasContentDict(b) == b.delta \in {"text", "notext"} \/ b.content_block \in {"text", "notext"}

\* C15 as stated: every message_stop event without text is formatted as a
\* canonical chunk with finish-reason "stop" and no text, and an event of
\* another type never gets a finish-reason.
C15_StopWithoutContent ==
    \A chunk \in AnthropicEvents :
        LET v == format_antropic(chunk).value IN
        IF chunk.body.type = "message_stop"
        THEN ~HasText(chunk.body)
                => (v.kind = "canonical" /\ v.finish_reason = "stop" /\ v.content = "")
        ELSE v.finish_reason = "unset"

\* C15: a message_stop event with a non-empty delta or content_block is
\* formatted as a canonical chunk with finish-reason "stop", whose text is
\* empty when the dict read has no text; a message_stop event with
\* neither delta nor content_block is formatted as EMPTY, as is every
\* event with neither; an event of another type never gets a
\* finish-reason.
C15_StopNeedsContentDict ==
    \A chunk \in AnthropicEvents :
        LET v == format_antropic(chunk).value
            b == chunk.body
        IN
        /\ format_antropic(chunk).raised = ""
        /\ ~HasContentDict(b) => v = EMPTY
        /\ HasContentDict(b) =>
              /\ v.kind = "canonical"
              /\ v.finish_reason = IF b.type = "message_stop" THEN "stop" ELSE "unset"
              /\ ~HasText(b) => v.content = ""
        /\ b.type # "message_stop" => v.finish_reason = "unset"

\* A message_stop event whose delta holds no text was framed with
\* finish-reason "stop".
C15_Witness ==
    /\ dest_prov = "anthropic"
    /\ pulled = 1
    /\ response.body[1] = [prefix |-> TRUE,
                           body |-> [kind |-> "object", type |-> "message_stop",
                                     delta |-> "notext", content_block |-> "absent"]]
    /\ frames = <<format_as_openai_chunk(Canonical("stop", "", Blank))>>

\* C19: the k-th chunk read from the upstream is chunk k, read and
\* formatted once, while the generator was running for a request of the
\* consumer that no frame had answered yet; no chunk is read before the
\* first request, while the generator is suspended at a yield, or after
\* the consumer cancelled.
C19_LazySinglePass ==
    /\ Len(formatted) = pulled
    /\ pulled <= Len(response.body)
    /\ \A k \in DOMAIN formatted :
          /\ formatted[k].chunk = k
          /\ formatted[k].state = "running"
          /\ formatted[k].requests = formatted[k].frames + 1
    /\ Len(frames) <= requests
    /\ stream = "suspended" => Len(frames) = requests

\* The client cancelled after one frame, with a chunk left upstream.
C19_Witness ==
    /\ stream = "cancelled"
    /\ Len(frames) = 1
    /\ pulled = 1
    /\ Len(response.body) = 2

\* ------------------------------------------------------------- body claim
\* The base_url of C16: the endpoint URL, with "/v1" appended for openai
\* and openrouter.
ExpectedBaseUrl(r) ==
    CASE r.provider_type = "openai" -> r.endpoint \o <<"/v1">>
      [] r.provider_type = "openrouter" -> r.endpoint \o <<"/v1">>
      [] OTHER -> r.endpoint

\* C16: once set_destination_info has returned, the returned dict is
\* another object than the body, at the return its value is the value the
\* body had with model set to the route's model name and base_url to the
\* endpoint URL ("/v1" appended for openai and openrouter only), and the
\* body handed in keeps its value, whatever the caller then does to the
\* returned dict or to its nested values.
C16_RewriteIsPureCopy ==
    body_pc \in {"returned", "edited"} =>
        /\ new_data # data
        /\ ValueAt(dicts, lists, data) = data0
        /\ body_pc = "returned" =>
              ValueAt(dicts, lists, new_data) =
                  [data0 EXCEPT !.model = <<route.model>>,
                                !.base_url = ExpectedBaseUrl(route)]

\* An openrouter route and a body that had model, base_url and a message:
\* the caller has added a message to the returned body.
C16_Witness ==
    /\ body_pc = "edited"
    /\ route.provider_type = "openrouter"
    /\ data0.model # Absent /\ data0.base_url # Absent
    /\ data0.messages = <<"hi">>
    /\ ValueAt(dicts, lists, new_data).messages = <<"hi", "more">>
    /\ ValueAt(dicts, lists, new_data).base_url = route.endpoint \o <<"/v1">>

\* ------------------------------------------------------------- init_db claim
\* C17: an init_db invocation that found the store executed no statement,
\* ended as skipped and left the store as it was; the constructor invokes
\* init_db only when the store is absent, so statements are executed only
\* by an invocation that found no store; an invocation that found neither
\* store nor schema file raised FileNotFoundError, executed nothing and
\* created no store.
C17_BootstrapOnlyWhenAbsent ==
    \A k \in DOMAIN init_log :
        LET e == init_log[k]
            after == IF k < Len(init_log) THEN init_log[k + 1].before ELSE store
        IN
        /\ e.before.exists =>
              (e.via = "init_db" /\ e.executed = 0 /\ e.outcome = "skipped"
               /\ after = e.before)
        /\ (~e.before.exists /\ ~schema.exists) =>
              (e.outcome = "FileNotFoundError" /\ e.executed = 0 /\ after = e.before)
        /\ e.outcome = "skipped" => e.before.exists

\* init_db_sync on an absent store: the constructor applied the three
\* statements of the schema, the init_db that follows was skipped.
C17_Witness ==
    /\ Len(init_log) = 2
    /\ init_log[1] = LogEntry("constructor", [exists |-> FALSE, applied |-> <<>>],
                              3, "done")
    /\ init_log[2].via = "init_db"
    /\ init_log[2].outcome = "skipped"
    /\ store.applied = <<1, 2, 3>>

====
